---- MODULE Spec2Model ----
(***************************************************************************)
(* A model of buddhabrot.c: the escape classification pass, the orbit      *)
(* accumulation pass, the statistics reduction, the percentile colouring   *)
(* and the histogram of the report.                                        *)
(*                                                                         *)
(* Complex values are exact rationals re/den + (im/den) i.  On the grids   *)
(* of Grids every value the program computes in double precision is a      *)
(* dyadic rational with a denominator of at most 2^16, so the double       *)
(* arithmetic of the source is exact there and the rationals are what the  *)
(* build computes.                                                         *)
(***************************************************************************)
EXTENDS Integers, Sequences, FiniteSets, TLC

VARIABLES b, pc, loop, fr, cbl, hist, out

vars == <<b, pc, loop, fr, cbl, hist, out>>

(***************************************************************************)
(* Bounds of the model and constants of the program.                       *)
(***************************************************************************)
\* #define ITERATIONS 40000
ITERATIONS == 40000

\* The largest small iteration cap buddha_init is given.
MaxIter == 4

\* The value other than 0 an indeterminate int may turn out to hold.
GarbageWord == 1

\* Width, height and largest count of the finished count grids that the
\* statistics, the colouring and the report are run on.
StatsWidth == 3

StatsHeight == 1

MaxCount == 3

\* What a read of an indeterminate (never written) int may yield.
Garbage == {0, GarbageWord}

\* A cell of an allocated block, or a field of the struct, not yet written.
Uninit == "uninit"

\* count_frequency before buddha_compute_stats allocates it.
Null == "NULL"

\* Width and height of the grids: the plane step 3/width and 2/height is 1
\* or 1/2 on each of them.
Grids == {<<3, 2>>, <<6, 2>>, <<3, 4>>, <<6, 4>>}

\* The run configurations <<width, height, iterations>>: every grid with a
\* small cap, and the 3 x 2 grid (all orbits are Gaussian integers) with the
\* cap main() uses.
Configs ==
    {<<g[1], g[2], it>> : g \in Grids, it \in 1..MaxIter} \cup {<<3, 2, ITERATIONS>>}

(***************************************************************************)
(* Arithmetic.                                                             *)
(***************************************************************************)
Abs(n) == IF n < 0 THEN -n ELSE n

RECURSIVE GCD(_, _)
GCD(m, n) == IF n = 0 THEN m ELSE GCD(n, m % n)

\* The (int) cast of the quotient n / m of two doubles, m > 0: truncation
\* toward zero.
TruncDiv(n, m) == IF n >= 0 THEN n \div m ELSE -((-n) \div m)

\* A complex value in lowest terms.
Cx(re, im, den) ==
    LET g == GCD(GCD(Abs(re), Abs(im)), den)
    IN  [re |-> re \div g, im |-> im \div g, den |-> den \div g]

CxZero == [re |-> 0, im |-> 0, den |-> 1]

(***************************************************************************)
(* buddha_init                                                             *)
(***************************************************************************)
\* malloc: a block of n cells, each holding `fill`.
malloc(n, fill) == [o \in 0..(n - 1) |-> fill]

buddha_init(width, height, iterations, nebula, plotFill) ==
    [escapes          |-> malloc(width * height, Uninit),
     plot             |-> malloc(width * height, plotFill),
     im               |-> malloc(width * height * 3, Uninit),
     max              |-> 0,
     width            |-> width,
     height           |-> height,
     iterations       |-> iterations,
     max_offs         |-> width * height - 1,
     nebula           |-> nebula,
     count_frequency  |-> Null,
     num_escaped      |-> Uninit,
     percentile_limit |-> [k \in 0..9 |-> Uninit],
     mean             |-> Uninit]

(***************************************************************************)
(* px2cx, cx2px, iterate                                                   *)
(***************************************************************************)
\* (3.0 / width * x - 2) + (2.0 / height * y - 1) i
px2cx(bb, x, y) ==
    Cx((3 * x - 2 * bb.width) * bb.height,
       (2 * y - bb.height) * bb.width,
       bb.width * bb.height)

\* x = (int)((re + 2) * width / 3), y = (int)((im + 1) * height / 2)
cx2px(bb, z) ==
    [x |-> TruncDiv((z.re + 2 * z.den) * bb.width, 3 * z.den),
     y |-> TruncDiv((z.im + z.den) * bb.height, 2 * z.den)]

\* z = z*z + c
Zsq(z, c) ==
    Cx((z.re * z.re - z.im * z.im) * c.den + c.re * z.den * z.den,
       (2 * z.re * z.im) * c.den + c.im * z.den * z.den,
       z.den * z.den * c.den)

\* cabs(z) >= 2
Escaped(z) == z.re * z.re + z.im * z.im >= 4 * z.den * z.den

\* A loop that hands every value to the callback, the escaping one too.
CallsBackAlways(cb, esc) == cb

\* if(cabs(z) >= 2) break; if(cb != NULL) cb(b, z);
CallsBack(cb, esc) == cb /\ ~esc

(***************************************************************************)
(* buddha_plot_callback                                                    *)
(***************************************************************************)
Offs(bb, p) == p.y * bb.width + p.x

\* if(offs < 0 || offs > b->max_offs) return;
Dropped(bb, offs) == offs < 0 \/ offs > bb.max_offs

\* A callback that sets max to the count it has just written.
NewMaxLast(count, max) == count

\* if(b->plot[offs] > b->max) b->max = b->plot[offs];
NewMax(count, max) == IF count > max THEN count ELSE max

buddha_plot_callback(bb, z) ==
    LET offs == Offs(bb, cx2px(bb, z))
    IN  IF Dropped(bb, offs)
        THEN bb
        ELSE LET n == bb.plot[offs] + 1
             IN  [bb EXCEPT !.plot[offs] = n, !.max = NewMax(n, @)]

\* The locals of the callback when it returns, and whether it counted.
CallbackLocals(bb, z) ==
    LET p == cx2px(bb, z)
    IN  [called |-> TRUE, x |-> p.x, y |-> p.y, offs |-> Offs(bb, p),
         hit |-> ~Dropped(bb, Offs(bb, p))]

NoCallback == [called |-> FALSE, x |-> 0, y |-> 0, offs |-> 0, hit |-> FALSE]

(***************************************************************************)
(* The pixel loops of the two passes: x outer, y inner.                    *)
(***************************************************************************)
LoopStart == [x |-> 0, y |-> 0]

Advance(bb, l) ==
    IF l.y + 1 < bb.height THEN [x |-> l.x, y |-> l.y + 1]
    ELSE [x |-> l.x + 1, y |-> 0]

LoopOffs(bb, l) == l.y * bb.width + l.x

\* The frame of a call iterate(b, x, y, cb).
Call(bb, x, y, cb) == [x |-> x, y |-> y, z |-> CxZero, c |-> px2cx(bb, x, y), i |-> 1, cb |-> cb]

NoFrame == [x |-> 0, y |-> 0, z |-> CxZero, c |-> CxZero, i |-> 0, cb |-> FALSE]

\* if(its != ITERATIONS) escapes[offs] = 1; else escapes[offs] = 0;
EscapeFlag(its) == IF its # ITERATIONS THEN 1 ELSE 0

\* What the run has done so far: the values handed to the callback by the
\* call in progress, what iterate returned for each pixel in pass 1, the
\* pixels pass 2 has handled and whether it took them in the order of the
\* source.
NoHist(bb) ==
    [visited |-> <<>>, its1 |-> [o \in 0..bb.max_offs |-> 0], traced |-> {}, inorder |-> TRUE]

\* What the later stages have done: the slots of percentile_limit never
\* written, the indices written outside the count_frequency block, whether
\* the mean was divided by n = 0, whether a rank was divided by a span of
\* zero, what err() has written to stderr, the local a of getcolor for each
\* pixel, and the locals ranges, n of buddha_print_stats with the number of
\* increments past the end of ranges.
NoOut == [unwritten |-> 0..9, oob |-> {}, meandiv0 |-> FALSE, spandiv0 |-> FALSE,
          stderr |-> <<>>, a |-> <<>>, ranges |-> <<>>, overflow |-> 0, n |-> 0]

Init ==
    /\ b \in {buddha_init(cfg[1], cfg[2], cfg[3], 0, g) : cfg \in Configs, g \in Garbage}
    /\ pc = "calc_escapes"
    /\ loop = LoopStart
    /\ fr = NoFrame
    /\ cbl = NoCallback
    /\ hist = NoHist(b)
    /\ out = NoOut

\* buddha_calc_escapes: int its = iterate(b, x, y, NULL);
CalcEscapesPixel ==
    /\ pc = "calc_escapes"
    /\ loop.x < b.width
    /\ fr' = Call(b, loop.x, loop.y, FALSE)
    /\ hist' = [hist EXCEPT !.visited = <<>>]
    /\ pc' = "iterate"
    /\ UNCHANGED <<b, loop, cbl, out>>

\* One turn of the loop of iterate.
IterateStep ==
    /\ pc = "iterate"
    /\ fr.i < b.iterations
    /\ LET zn  == Zsq(fr.z, fr.c)
           esc == Escaped(zn)
           cb  == CallsBack(fr.cb, esc)
       IN  /\ fr' = [fr EXCEPT !.z = zn, !.i = IF esc THEN @ ELSE @ + 1]
           /\ pc' = IF esc THEN "return" ELSE "iterate"
           /\ b' = IF cb THEN buddha_plot_callback(b, zn) ELSE b
           /\ cbl' = IF cb THEN CallbackLocals(b, zn) ELSE cbl
           /\ hist' = IF cb THEN [hist EXCEPT !.visited = Append(@, zn)] ELSE hist
    /\ UNCHANGED <<loop, out>>

\* The loop of iterate ends because i has reached b->iterations.
IterateExit ==
    /\ pc = "iterate"
    /\ ~(fr.i < b.iterations)
    /\ pc' = "return"
    /\ UNCHANGED <<b, loop, fr, cbl, hist, out>>

\* iterate returns i to buddha_calc_escapes, which stores the flag.
CalcEscapesStore ==
    /\ pc = "return"
    /\ ~fr.cb
    /\ b' = [b EXCEPT !.escapes[LoopOffs(b, loop)] = EscapeFlag(fr.i)]
    /\ hist' = [hist EXCEPT !.its1[LoopOffs(b, loop)] = fr.i]
    /\ LET nxt == Advance(b, loop)
       IN  IF nxt.x < b.width
           THEN loop' = nxt /\ pc' = "calc_escapes"
           ELSE loop' = LoopStart /\ pc' = "plot_escapes"
    /\ UNCHANGED <<fr, cbl, out>>

\* buddha_plot_escapes: a pixel flagged 1 is traced, any other is passed.
PlotEscapesPixel ==
    /\ pc = "plot_escapes"
    /\ loop.x < b.width
    /\ hist' = [hist EXCEPT !.visited = <<>>, !.traced = @ \cup {LoopOffs(b, loop)}]
    /\ IF b.escapes[LoopOffs(b, loop)] = 1
       THEN /\ fr' = Call(b, loop.x, loop.y, TRUE)
            /\ pc' = "iterate"
            /\ loop' = loop
       ELSE /\ LET nxt == Advance(b, loop)
               IN  /\ loop' = nxt
                   /\ pc' = IF nxt.x < b.width THEN "plot_escapes" ELSE "compute_stats"
            /\ fr' = fr
    /\ UNCHANGED <<b, cbl, out>>

\* iterate returns to buddha_plot_escapes, which drops the count.
PlotEscapesResume ==
    /\ pc = "return"
    /\ fr.cb
    /\ LET nxt == Advance(b, loop)
       IN  /\ loop' = nxt
           /\ pc' = IF nxt.x < b.width THEN "plot_escapes" ELSE "compute_stats"
    /\ UNCHANGED <<b, fr, cbl, hist, out>>

Next ==
    \/ CalcEscapesPixel
    \/ IterateStep
    \/ IterateExit
    \/ CalcEscapesStore
    \/ PlotEscapesPixel
    \/ PlotEscapesResume

Spec == Init /\ [][Next]_vars

(***************************************************************************)
(* The passes as functions of the struct, and pass 2 taken in any order.   *)
(***************************************************************************)
\* iterate(b, x, y, cb) from the turn of the loop that has z and i: the
\* struct the callbacks leave and the count returned.
RECURSIVE IterateFrom(_, _, _, _, _)
IterateFrom(bb, z, c, i, cb) ==
    IF ~(i < bb.iterations)
    THEN [b |-> bb, ret |-> i]
    ELSE LET zn  == Zsq(z, c)
             esc == Escaped(zn)
             nb  == IF CallsBack(cb, esc) THEN buddha_plot_callback(bb, zn) ELSE bb
         IN  IF esc THEN [b |-> nb, ret |-> i]
             ELSE IterateFrom(nb, zn, c, i + 1, cb)

iterate(bb, x, y, cb) == IterateFrom(bb, CxZero, px2cx(bb, x, y), 1, cb)

\* buddha_calc_escapes
buddha_calc_escapes(bb) ==
    [bb EXCEPT !.escapes =
        [o \in 0..bb.max_offs |->
            EscapeFlag(iterate(bb, o % bb.width, o \div bb.width, FALSE).ret)]]

\* The body of the loop of buddha_plot_escapes at pixel (x, y).
PlotEscapesAt(bb, x, y) ==
    IF bb.escapes[y * bb.width + x] = 1 THEN iterate(bb, x, y, TRUE).b ELSE bb

\* buddha_plot_escapes from pixel l on, in the order of the source.
RECURSIVE PlotEscapesFrom(_, _)
PlotEscapesFrom(bb, l) ==
    IF ~(l.x < bb.width) THEN bb
    ELSE PlotEscapesFrom(PlotEscapesAt(bb, l.x, l.y), Advance(bb, l))

buddha_plot_escapes(bb) == PlotEscapesFrom(bb, LoopStart)

\* The grids whose pass 2 is taken in every order.
PermGrids == {<<3, 2>>, <<6, 2>>, <<3, 4>>}

PermConfigs == {<<g[1], g[2], it>> : g \in PermGrids, it \in 1..MaxIter}

\* After pass 1, on a zero count grid with max = 0.
InitPerm ==
    /\ b \in {buddha_calc_escapes(buddha_init(cfg[1], cfg[2], cfg[3], 0, 0)) : cfg \in PermConfigs}
    /\ pc = "plot_escapes"
    /\ loop = LoopStart
    /\ fr = NoFrame
    /\ cbl = NoCallback
    /\ hist = NoHist(b)
    /\ out = NoOut

\* The body of the loop of buddha_plot_escapes at any pixel not yet taken;
\* loop stays at the pixel the source would take next while the order is
\* the source's.
PlotEscapesAnyPixel ==
    /\ pc = "plot_escapes"
    /\ \E o \in (0..b.max_offs) \ hist.traced :
          /\ b' = PlotEscapesAt(b, o % b.width, o \div b.width)
          /\ hist' = [hist EXCEPT !.traced = @ \cup {o},
                                  !.inorder = @ /\ o = LoopOffs(b, loop)]
          /\ loop' = IF hist.inorder /\ o = LoopOffs(b, loop)
                     THEN Advance(b, loop) ELSE loop
          /\ pc' = IF hist.traced \cup {o} = 0..b.max_offs
                   THEN "compute_stats" ELSE "plot_escapes"
    /\ UNCHANGED <<fr, cbl, out>>

NextPerm == PlotEscapesAnyPixel

SpecPerm == InitPerm /\ [][NextPerm]_vars

(***************************************************************************)
(* buddha_compute_stats                                                    *)
(***************************************************************************)
RECURSIVE SumTo(_, _)
\* f[0] + ... + f[n]
SumTo(f, n) == IF n < 0 THEN 0 ELSE f[n] + SumTo(f, n - 1)

RECURSIVE MaxTo(_, _)
\* The largest of f[0] .. f[n] and 0.
MaxTo(f, n) ==
    IF n < 0 THEN 0
    ELSE LET m == MaxTo(f, n - 1) IN IF f[n] > m THEN f[n] ELSE m

\* The cells of the count grid that hold c.
CellsWith(bb, c) == {o \in 0..bb.max_offs : bb.plot[o] = c}

NonZero(bb) == {o \in 0..bb.max_offs : bb.plot[o] # 0}

\* b->count_frequency = malloc(sizeof(int) * b->max): the indices of the block.
FrequencyBlock(bb) == 0..(bb.max - 1)

\* The scan: count_frequency[c]++ for every cell with a count c != 0, on the
\* indeterminate contents g of the block.  A count outside the block is
\* written past its end and does not show in it.
Scan(bb, g) == [k \in FrequencyBlock(bb) |-> g[k] + Cardinality(CellsWith(bb, k) \ CellsWith(bb, 0))]

\* The indices the scan writes outside the block.
ScanOutside(bb) == {bb.plot[o] : o \in NonZero(bb)} \ FrequencyBlock(bb)

\* The percentile walk from index i with cum_freq = cum and p slots recorded.
\* lim is (p + 1) * n / 10, so that cum_freq > lim is 10 * cum_freq >
\* (p + 1) * n (the sum of doubles that lim is differs from that only in its
\* tenth term, which no walk over fewer than ten count values reaches).
RECURSIVE Walk(_, _, _, _, _, _, _)
Walk(cf, n, max, i, cum, p, pl) ==
    IF ~(i < max) THEN [pl |-> pl, p |-> p]
    ELSE LET cum2 == cum + cf[i]
             rec  == 10 * cum2 > (p + 1) * n
             pl2  == IF rec THEN [pl EXCEPT ![p] = i] ELSE pl
             p2   == IF rec THEN p + 1 ELSE p
         IN  IF p2 = 10 THEN [pl |-> pl2, p |-> p2]
             ELSE Walk(cf, n, max, i + 1, cum2, p2, pl2)

\* b->mean = (double)sum / n: with n = 0 the quotient is a NaN and its
\* conversion to int is undefined.
Mean(sum, n) == IF n = 0 THEN Garbage ELSE {sum \div n}

\* The struct buddha_compute_stats leaves when the block it allocates holds
\* g and the conversion of the mean yields m; slot 9 is set last.
ComputeStatsResult(bb, g, m) ==
    LET n == Cardinality(NonZero(bb))
    IN  [bb EXCEPT !.count_frequency = Scan(bb, g),
                   !.mean = m,
                   !.num_escaped = n,
                   !.percentile_limit =
                       [Walk(Scan(bb, g), n, bb.max, 0, 0, 0, @).pl EXCEPT ![9] = bb.max]]

\* The slots of percentile_limit it leaves unwritten.
Unwritten(bb, g) ==
    LET n == Cardinality(NonZero(bb))
    IN  Walk(Scan(bb, g), n, bb.max, 0, 0, 0, bb.percentile_limit).p .. 8

buddha_compute_stats ==
    /\ pc = "compute_stats"
    /\ \E g \in [FrequencyBlock(b) -> Garbage] :
         \E m \in Mean(SumTo(b.plot, b.max_offs), Cardinality(NonZero(b))) :
            /\ b' = ComputeStatsResult(b, g, m)
            /\ out' = [out EXCEPT !.unwritten = Unwritten(b, g),
                                  !.oob = ScanOutside(b),
                                  !.meandiv0 = (Cardinality(NonZero(b)) = 0)]
    /\ pc' = "draw"
    /\ UNCHANGED <<loop, fr, cbl, hist>>

(***************************************************************************)
(* rank_in_percentile, rgb, getcolor, putpixel, buddha_draw                *)
(***************************************************************************)
\* The (int) cast of the quotient n / m of two doubles, m # 0.
TruncQuot(n, m) ==
    IF (n >= 0) = (m > 0) THEN Abs(n) \div Abs(m) ELSE -(Abs(n) \div Abs(m))

\* Whether rank_in_percentile(b, lo, hi, c) divides by a span of zero.
ZeroSpan(pl, lo, hi) == pl[hi] = pl[lo]

\* What rank_in_percentile(b, lo, hi, c) may return: the quotient cast to
\* int; with a span of zero the quotient is an infinity or a NaN and the
\* cast is undefined.
rank_in_percentile(pl, lo, hi, c) ==
    IF ZeroSpan(pl, lo, hi) THEN Garbage
    ELSE {TruncQuot(c - pl[lo], pl[hi] - pl[lo])}

\* The band getcolor selects for a count c != 0.
Band(pl, c) ==
    IF c <= pl[1] THEN <<0, 1>>
    ELSE IF c <= pl[2] THEN <<1, 2>>
    ELSE IF c <= pl[4] THEN <<2, 4>>
    ELSE IF c <= pl[5] THEN <<4, 5>>
    ELSE IF c <= pl[6] THEN <<5, 6>>
    ELSE IF c < pl[7] THEN <<6, 7>>
    ELSE <<7, 9>>

\* rgb(r, g, b) for channel values that are whole numbers (every rank is one):
\* the shifts as multiplications.
rgb(r, g, bl) == (r * 255) * 65536 + (g * 255) * 256 + bl * 255

\* The colour getcolor returns for a count c != 0 whose rank came out as a.
BandColor(band, a) ==
    IF band = <<0, 1>> THEN rgb(0, 0, a)
    ELSE IF band = <<1, 2>> THEN rgb(a, 0, 1)
    ELSE IF band = <<2, 4>> THEN rgb(1, 0, 1 - a)
    ELSE IF band = <<4, 5>> THEN rgb(1, a, 0)
    ELSE IF band = <<5, 6>> THEN rgb(1 - a, 1, 0)
    ELSE IF band = <<6, 7>> THEN rgb(0, 1, a)
    ELSE rgb(a, 1, 1)

\* RED(x), GREEN(x), BLUE(x) of a 32-bit two's complement x.
RED(color) == (color \div 65536) % 256

GREEN(color) == (color \div 256) % 256

BLUE(color) == color % 256

\* getcolor(b, count) when the rank of the band comes out as a[o]: a count
\* of 0 is black.
getcolor(pl, count, a, o) ==
    IF count = 0 THEN 0 ELSE BandColor(Band(pl, count), a[o])

\* putpixel over the whole grid: byte k of the image, for the ranks a.
Raster(bb, pl, a) ==
    [k \in 0..(3 * bb.width * bb.height - 1) |->
        LET o     == k \div 3
            color == getcolor(pl, bb.plot[o], a, o)
        IN  IF k % 3 = 0 THEN RED(color)
            ELSE IF k % 3 = 1 THEN GREEN(color) ELSE BLUE(color)]

\* What rank_in_percentile may return to getcolor at pixel o, whose count is
\* not 0.
RankAt(bb, pl, o) ==
    LET bd == Band(pl, bb.plot[o])
    IN  rank_in_percentile(pl, bd[1], bd[2], bb.plot[o])

\* The local a of getcolor at each pixel whose count is not 0 (getcolor
\* returns before it sets a for a count of 0), given thresholds pl.
Ranks(bb, pl) ==
    {a \in [NonZero(bb) -> UNION {RankAt(bb, pl, o) : o \in NonZero(bb)}] :
        \A o \in NonZero(bb) : a[o] \in RankAt(bb, pl, o)}

\* The slots of percentile_limit never written hold indeterminate values,
\* which the first read fixes.
Thresholds(bb, unwritten) ==
    {[k \in 0..9 |-> IF k \in unwritten THEN g[k] ELSE bb.percentile_limit[k]] :
        g \in [unwritten -> Garbage]}

\* Whether getcolor divides by a span of zero somewhere on the grid.
DrawZeroSpan(bb, pl) ==
    \E o \in NonZero(bb) :
        LET bd == Band(pl, bb.plot[o]) IN ZeroSpan(pl, bd[1], bd[2])

buddha_draw ==
    /\ pc = "draw"
    /\ \E pl \in Thresholds(b, out.unwritten) :
         \E a \in Ranks(b, pl) :
            /\ b' = [b EXCEPT !.percentile_limit = pl, !.im = Raster(b, pl, a)]
            /\ out' = [out EXCEPT !.a = a, !.spandiv0 = DrawZeroSpan(b, pl)]
    /\ pc' = "print_stats"
    /\ UNCHANGED <<loop, fr, cbl, hist>>

(***************************************************************************)
(* buddha_print_stats                                                      *)
(***************************************************************************)
\* The j at which the inner loop stops for a count c: the first j in 1..20
\* with c < twentieth * j, and 21 when there is none.  twentieth is max / 20
\* in double precision; for every max up to 12 the product twentieth * j is
\* exact whenever max * j / 20 is a whole number, so the comparison is that
\* of 20 * c with max * j.
RECURSIVE Bucket(_, _, _)
Bucket(max, c, j) ==
    IF j > 20 THEN j
    ELSE IF 20 * c < max * j THEN j ELSE Bucket(max, c, j + 1)

\* ranges[0..19] after the loop over the grid.
Ranges(bb) ==
    [r \in 0..19 |->
        Cardinality({o \in NonZero(bb) : Bucket(bb.max, bb.plot[o], 1) - 1 = r})]

\* The number of increments of ranges[20], past the end of the array.
RangesOverflow(bb) ==
    Cardinality({o \in NonZero(bb) : Bucket(bb.max, bb.plot[o], 1) - 1 = 20})

buddha_print_stats ==
    /\ pc = "print_stats"
    /\ out' = [out EXCEPT !.ranges = Ranges(b), !.overflow = RangesOverflow(b),
                          !.n = Cardinality(NonZero(b))]
    /\ pc' = "exit"
    /\ UNCHANGED <<b, loop, fr, cbl, hist>>

\* A finished count grid: the struct after the two passes, holding counts p.
Finished(width, height, p) ==
    [buddha_init(width, height, MaxIter, 0, 0) EXCEPT
        !.escapes = [o \in 0..(width * height - 1) |-> 1],
        !.plot = p,
        !.max = MaxTo(p, width * height - 1)]

\* The struct after the two passes: every small count grid, and the grids
\* the two passes leave on the 3 x 2 grid.
InitStats ==
    /\ b \in {Finished(StatsWidth, StatsHeight, p) :
                p \in [0..(StatsWidth * StatsHeight - 1) -> 0..MaxCount]}
             \cup {buddha_plot_escapes(buddha_calc_escapes(buddha_init(3, 2, it, 0, 0))) : it \in 1..MaxIter}
    /\ pc = "compute_stats"
    /\ loop = LoopStart
    /\ fr = NoFrame
    /\ cbl = NoCallback
    /\ hist = NoHist(b)
    /\ out = NoOut

NextStats ==
    \/ buddha_compute_stats
    \/ buddha_draw
    \/ buddha_print_stats

SpecStats == InitStats /\ [][NextStats]_vars

(***************************************************************************)
(* Claims about the statistics, the colouring and the report.              *)
(***************************************************************************)
NonDecreasing(pl) == \A k \in 0..8 : pl[k] <= pl[k + 1]

\* C2: after buddha_compute_stats on a count grid with a nonzero cell, every
\* slot of percentile_limit has been written, the ten thresholds are
\* non-decreasing, and percentile_limit[9] is the largest count of the grid.
C2_ThresholdsDefinedAndSorted ==
    (pc = "draw" /\ NonZero(b) # {}) =>
        /\ out.unwritten = {}
        /\ NonDecreasing(b.percentile_limit)
        /\ b.percentile_limit[9] = MaxTo(b.plot, b.max_offs)

\* C3: after buddha_print_stats the counts of the 20 buckets ranges[0..19]
\* add up to the number of nonzero cells of the grid.
C3_HistogramCoversEscaped ==
    pc = "exit" => SumTo(out.ranges, 19) = Cardinality(NonZero(b))

\* C6: when the thresholds are non-decreasing, getcolor divides by no span of
\* zero, and the rank it uses for a count whose band has equal thresholds
\* is 0.
C6_ZeroSpanRankIsZero ==
    (pc \in {"print_stats", "exit"} /\ NonDecreasing(b.percentile_limit)) =>
        /\ ~out.spandiv0
        /\ \A o \in NonZero(b) :
              LET bd == Band(b.percentile_limit, b.plot[o])
              IN  ZeroSpan(b.percentile_limit, bd[1], bd[2]) => out.a[o] = 0

\* C7: when the grid has no nonzero cell, buddha_compute_stats reports the
\* degenerate run and does not divide the sum by n = 0.
C7_EmptyGridReported ==
    (pc = "draw" /\ b.num_escaped = 0) => (out.stderr # <<>> /\ ~out.meandiv0)

\* C8: after buddha_compute_stats on a grid with a nonzero cell the
\* count-frequency table has the entries 0..max, every index used lies
\* inside it, count_frequency[c] is the number
\* of cells that hold c for every c in 1..max, and num_escaped is the number
\* of nonzero cells.
C8_FrequencyTableExact ==
    (pc = "draw" /\ NonZero(b) # {}) =>
        /\ DOMAIN b.count_frequency = 0..b.max
        /\ out.oob = {}
        /\ \A c \in 1..b.max : b.count_frequency[c] = Cardinality(CellsWith(b, c))
        /\ b.num_escaped = Cardinality(NonZero(b))

\* The channel that changes within a band (0 red, 1 green, 2 blue) and
\* whether it rises with the count.
Channel(band) ==
    IF band \in {<<0, 1>>, <<2, 4>>, <<6, 7>>} THEN 2
    ELSE IF band = <<4, 5>> THEN 1 ELSE 0

Rising(band) == band \notin {<<2, 4>>, <<5, 6>>}

\* C9: for a count within a band whose low threshold is below its high
\* threshold, the changing channel of the pixel is floor(255 * rank), or
\* floor(255 * (1 - rank)) when it falls, with rank = (count - low) /
\* (high - low); and every byte of the pixel lies in 0..255.
C9_ChannelInterpolatesLinearly ==
    pc \in {"print_stats", "exit"} =>
        \A o \in NonZero(b) :
            LET bd == Band(b.percentile_limit, b.plot[o])
                lo == b.percentile_limit[bd[1]]
                hi == b.percentile_limit[bd[2]]
                c  == b.plot[o]
            IN  (lo < hi /\ lo <= c /\ c <= hi) =>
                    /\ b.im[3 * o + Channel(bd)] =
                          IF Rising(bd) THEN (255 * (c - lo)) \div (hi - lo)
                          ELSE (255 * (hi - c)) \div (hi - lo)
                    /\ \A k \in 0..2 : b.im[3 * o + k] \in 0..255

(***************************************************************************)
(* Claims about the two passes.                                            *)
(***************************************************************************)
InGrid(bb, p) == 0 <= p.x /\ p.x < bb.width /\ 0 <= p.y /\ p.y < bb.height

\* The k-th value of the orbit of c.
RECURSIVE OrbitAt(_, _)
OrbitAt(c, k) == IF k = 0 THEN CxZero ELSE Zsq(OrbitAt(c, k - 1), c)

\* C1: a visit increments a count cell if and only if the pixel (x, y) that
\* cx2px returns for it lies in [0, width) x [0, height), the cell is then
\* (x, y) and max follows it; any other visit leaves the count grid and max
\* unchanged.
C1_VisitCountsIffInGrid ==
    [][Len(hist'.visited) > Len(hist.visited) =>
        LET z == hist'.visited[Len(hist'.visited)]
            p == cx2px(b, z)
            o == p.y * b.width + p.x
        IN  IF InGrid(b, p)
            THEN /\ b'.plot = [b.plot EXCEPT ![o] = @ + 1]
                 /\ b'.max = IF b.plot[o] + 1 > b.max THEN b.plot[o] + 1 ELSE b.max
            ELSE b'.plot = b.plot /\ b'.max = b.max]_vars

\* C4: while iterate runs with a callback and when it returns, the callback
\* has been invoked exactly once for each of the values z_1 .. z_(i-1) of the
\* orbit, in that order, none of them with |z| >= 2, so that the number of
\* invocations is the returned count minus 1; and the returned count is the
\* one the call without a callback returned for the pixel.
C4_CallbackOncePerIntermediateValue ==
    (pc \in {"iterate", "return"} /\ fr.cb) =>
        /\ Len(hist.visited) = fr.i - 1
        /\ \A k \in 1..Len(hist.visited) :
              hist.visited[k] = OrbitAt(fr.c, k) /\ ~Escaped(hist.visited[k])
        /\ pc = "return" => fr.i = hist.its1[LoopOffs(b, loop)]

\* An escaping orbit has been traced to its end: two values were handed to
\* the callback and the third escaped.
C4_Witness ==
    /\ pc = "return" /\ fr.cb
    /\ Escaped(fr.z)
    /\ Len(hist.visited) >= 2

\* C5: after pass 1 the escape flag of every pixel is 1 if and only if
\* iterate returned less than b->iterations for it, and 0 when it returned
\* b->iterations.
C5_FlagIffBelowCap ==
    pc = "plot_escapes" =>
        \A o \in 0..b.max_offs :
            b.escapes[o] = IF hist.its1[o] < b.iterations THEN 1 ELSE 0

\* C10: once pass 2 has taken every pixel, in whatever order, the count grid
\* and max are those the order of the source gives from the zero grid.
C10_OrderIndependent ==
    (pc = "compute_stats" /\ hist.traced = 0..b.max_offs) =>
        LET ref == buddha_plot_escapes([b EXCEPT !.plot = malloc(b.width * b.height, 0),
                                         !.max = 0])
        IN  b.plot = ref.plot /\ b.max = ref.max

\* Pass 2 is complete, it did not take the pixels in the order of the
\* source, and some cell was visited by more than one orbit value.
C10_Witness ==
    /\ pc = "compute_stats" /\ hist.traced = 0..b.max_offs
    /\ ~hist.inorder
    /\ b.max >= 2

====
